---- MODULE Spec2Model ----
(***************************************************************************)
(* A model of the marketplace front-end: the flow execution engine         *)
(* (flowService.executeFlow / executeNode) and the FlowExecutor component  *)
(* that drives it; the agent, flow and execution documents and listeners   *)
(* of databaseService; the accounts and roles of authService; and, of the  *)
(* client security service, the location check, the triple radial lock,    *)
(* the rate limiter with the Login form, the blast valve system, and the   *)
(* session with its inactivity and expiration timers.                      *)
(*                                                                         *)
(* The recursive, promise-chained walk of executeNode is modelled with an  *)
(* explicit call stack: one frame per executeNode activation, holding the  *)
(* values its parameters were bound to at the call site.                   *)
(*                                                                         *)
(* Each part has its own specification; the variables of the other parts   *)
(* rest at their initial values in it.                                     *)
(***************************************************************************)
EXTENDS Integers, Sequences, FiniteSets, TLC

\* ------------------------------------------------------------------ bounds
\* Longest edge list of a modelled flow.
MaxEdges == 2
\* Cap on the number of executeNode activations of one walk (the walk of a
\* retrying node is unbounded in the code).
MaxInvocations == 6
\* Number of documents the document store hands out ids for.
MaxDocs == 2
\* Cap on the count a rate-limit entry is driven to.
MaxChecks == 7
\* How far the clock is advanced, in half minutes.
MaxClock == 3
\* Number of attacks handled, of counter-attack timers pending at once, and
\* of requests let through to the network.
MaxBlasts == 3
MaxTimers == 10
MaxRequests == 2
\* How far the clock of a session is advanced, in steps of five minutes, and
\* the number of timer ids the host hands out.
MaxSessionClock == 6
MaxPending == 3
\* Number of executeFlow calls made by the flow cards and the flow executor,
\* and how far the clock is advanced between them, in milliseconds.
MaxFlowCalls == 3
MaxMillis == 2

\* ------------------------------------------------------- flow: the inputs
\* Node ids as the flow editor makes them: the initial node 'start' and
\* `agent-<timestamp>` / `integration-<timestamp>` nodes.
NodeIds == {"start", "agent-1", "integration-1"}

\* node.type === 'start' || nodeId.includes('start')
isStart(nodeId) == nodeId = "start"

\* node.type === 'agent' || nodeId.includes('agent')
isAgent(nodeId) == nodeId = "agent-1"

\* node.type === 'integration' || nodeId.includes('integration')
isIntegration(nodeId) == nodeId = "integration-1"

\* A node configuration without an errorHandling key.
Unset == "unset"
ErrorHandlingOptions == {"retry", "skip", "stop"}

\* The value of an identifier that was not passed by the caller.
Undefined == "undefined"
NoError == "none"

\* The start node of the editor is a ReactFlow 'input' node: it has no
\* target handle, so no edge of a flow leads into it.
EdgeSet == {e \in NodeIds \X NodeIds : ~isStart(e[2])}

RECURSIVE SeqsUpTo(_, _)
SeqsUpTo(S, n) ==
  IF n = 0 THEN {<<>>}
  ELSE LET shorter == SeqsUpTo(S, n - 1)
       IN  shorter \cup {Append(s, x) : s \in {t \in shorter : Len(t) = n - 1}, x \in S}

InitialInput == [k \in {"topic"} |-> "AI"]

\* ---------------------------------------------------------------- state
VARIABLES
  nodes,        \* the flow's node list (ids)
  edges,        \* the flow's edge list: a sequence of <<source, target>>
  nodeConfigs,  \* per node: its errorHandling, or Unset
  executions,   \* FlowService.executions: execution id -> FlowExecution
  executionId,  \* executeFlow's local: the id of its execution
  flowPc,       \* where executeFlow is: idle, walk, log, returned
  stack,        \* the activations of executeNode, innermost last
  thrown,       \* the error in flight, or NoError
  isRunning,    \* FlowExecutor state
  uiExecution,  \* FlowExecutor state: <<>> (null) or <<the polled FlowExecution>>
  calls,        \* history: every executeNode call, in call order
  attempts,     \* history: every agent / integration result, in order
  agentsDb,     \* the 'agents' collection
  flowsDb,      \* the 'flows' collection
  currentUser,  \* authService.currentUser: a uid, or Undefined (null)
  userProfile,  \* authService.userProfile: its role, or Undefined (null)
  securityOk,   \* whether the security checks of validateSecurityAccess pass
  nextDocId,    \* the document store's id generator
  dbError,      \* what the last databaseService call threw, or NoError
  deletedDocs,  \* history: <<collection, id>> of every completed delete
  usersDb,      \* the 'users' collection: uid -> the role of its profile
  accounts,     \* the uids with a Firebase account
  authError,    \* what the last authService call threw, or NoError
  promoted,     \* history: the uids an admin's promoteToAdmin was done for
  cachedLocation, \* GeographicSecurityManager.cachedLocation: a country, or Undefined
  timeZone,     \* the browser's time zone
  geoCheck,     \* <<>> or <<the result of the last validateLocation>>
  locks,        \* TripleRadialLockManager.locks: lock type -> lock (<<>> when [])
  lockUserId,   \* TripleRadialLockManager.userId, or Undefined (null)
  lockError,    \* what the last lock call threw, or NoError
  resetWhenSpent, \* history: locks were reset when one had no attempt left
  now,          \* Date.now(), in milliseconds
  limits,       \* RateLimiter.limits: key -> [count, resetTime]
  lastCheck,    \* <<>> or <<[id, ok]>>: the last checkLimit call and its result
  counted,      \* history: per identifier, when its current minute began and
                \* the calls (Login: submissions) made in it
  loginResult,  \* <<>> or <<[email, error]>>: the last Login submission
  valve,        \* the blast valve system and what it acts on: valveState.pressure,
                \* blastTargets, window.__securityEvents (its length), the
                \* pending counter-attack timers, the console lines of the last
                \* handler, and the requests sent to the network
  timeoutThrows, \* whether the host's setTimeout rejects a receiver other than window
  executionsDb, \* the 'executions' collection, in the order of its addDoc calls
  listeners,    \* the onSnapshot listeners: <<collection, uid of the query>>
  session,      \* SessionManager: sessionToken (present or not), expiresAt and
                \* expirationTimer (a timer id, 0 for null)
  monitor,      \* SecurityMonitor: isMonitoring, whether its activity listeners
                \* are attached, and inactivityTimer (a timer id, 0 for null)
  timers,       \* the host's pending setTimeout timers: id -> [kind, at]
  deviceTrusted, \* DeviceFingerprinter.deviceTrusted
  keystrokeData, \* BiometricCollector.keystrokeData: whether it has an entry
  lastEvent,    \* the last event EnterpriseSecurityClient.logSecurityEvent
                \* pushed, or Undefined
  authOutcome,  \* <<>> or <<the outcome of the last authenticateUser call>>
  flowRuns,     \* the executeFlow calls of several callers: per call, where it
                \* is, its executionId and its `execution` object
  executionRefs \* FlowService.executions among several callers: execution id ->
                \* the call whose `execution` object the map holds

flowVars == <<nodes, edges, nodeConfigs, executions, executionId, flowPc,
              stack, thrown, calls, attempts>>
uiVars == <<isRunning, uiExecution>>
dbVars == <<agentsDb, flowsDb, currentUser, userProfile, securityOk, nextDocId,
           dbError, deletedDocs>>
authVars == <<usersDb, accounts, authError, promoted>>
geoVars == <<cachedLocation, timeZone, geoCheck>>
lockVars == <<locks, lockUserId, lockError, resetWhenSpent>>
limitVars == <<now, limits, lastCheck, counted, loginResult>>
blastVars == <<valve, timeoutThrows>>
accessVars == <<executionsDb, listeners>>
sessVars == <<session, monitor, timers, deviceTrusted, keystrokeData, lastEvent,
             authOutcome>>
callVars == <<flowRuns, executionRefs>>
secVars == <<authVars, geoVars, lockVars, limitVars, blastVars, accessVars, sessVars,
            callVars>>
vars == <<flowVars, uiVars, dbVars, secVars>>

\* ------------------------------------------------------ flow: operators
\* { ...input, [nodeId]: result }
Merge(input, nodeId, result) ==
  [k \in DOMAIN input \cup {nodeId} |-> IF k = nodeId THEN result ELSE input[k]]

\* obj[key] = value on a Record<string, ...>
Put(obj, key, value) ==
  [k \in DOMAIN obj \cup {key} |-> IF k = key THEN value ELSE obj[k]]

\* buildExecutionGraph with each target put in front of its source's list
\* (unshift for push).
buildExecutionGraphReversed(ns, es) ==
  [n \in ns \cup {es[i][1] : i \in DOMAIN es} |->
     LET from == SelectSeq(es, LAMBDA e : e[1] = n)
     IN  [i \in DOMAIN from |-> from[Len(from) + 1 - i][2]]]

\* FlowService.buildExecutionGraph: every node gets [], then each edge's
\* target is pushed onto its source's list, in edge-list order.
buildExecutionGraph(ns, es) ==
  [n \in ns \cup {es[i][1] : i \in DOMAIN es} |->
     LET from == SelectSeq(es, LAMBDA e : e[1] = n)
     IN  [i \in DOMAIN from |-> from[i][2]]]

\* graph.get(nodeId) || []
nextNodes(graph, nodeId) == IF nodeId \in DOMAIN graph THEN graph[nodeId] ELSE <<>>

\* nodes.find(n => n.type === 'start' || n.id.includes('start'))
findStartNode(ns) == IF \E n \in ns : isStart(n) THEN CHOOSE n \in ns : isStart(n) ELSE Undefined

\* The flow editor's Error Handling select:
\* value={nodeConfigs[selectedNode.id]?.errorHandling || 'retry'}
EditorSelected(configs, nodeId) ==
  IF configs[nodeId] = Unset THEN "retry" ELSE configs[nodeId]

\* config.errorHandling || 'stop'
errorHandling(configs, nodeId) ==
  IF configs[nodeId] = Unset THEN "stop" ELSE configs[nodeId]

\* The catch block with the `throw error` of the 'stop' branch left out.
ErrorActionStopSwallowed(policy) ==
  CASE policy = "skip"  -> "skip"
    [] policy = "retry" -> "retry"
    [] OTHER            -> "return"

\* The catch block with the call of the 'retry' branch left out.
ErrorActionNoRetry(policy) ==
  CASE policy = "stop"  -> "throw"
    [] policy = "skip"  -> "skip"
    [] OTHER            -> "return"

\* The branches of executeNode's catch block: what the handler does next.
ErrorAction(policy) ==
  CASE policy = "stop"  -> "throw"
    [] policy = "skip"  -> "skip"
    [] policy = "retry" -> "retry"
    [] OTHER            -> "return"

\* An activation of executeNode(nodeId, graph, nodes, input, nodeConfigs,
\* execution): the frame keeps the parameters the body reads.
Frame(nodeId, input, execution) ==
  [nodeId |-> nodeId, input |-> input, execution |-> execution,
   pc |-> "entry", idx |-> 0, result |-> Undefined]

\* A call with all six arguments (the call sites of executeFlow, of the
\* start node's loop and of the retry branch).
Call6(nodeId, graph, ns, input, configs, execution) == Frame(nodeId, input, execution)

\* A call with five arguments: they bind, by position, to nodeId, graph,
\* nodes, input and nodeConfigs, and `execution` is undefined in the callee.
Call5(nodeId, graph, a3, a4, a5) == Frame(nodeId, a4, Undefined)

\* The call in the loop over the successors of a node that succeeded.
NextCall(nextNodeId, graph, f, configs, execution) ==
  Call5(nextNodeId, graph, Merge(f.input, f.nodeId, f.result), configs, execution)

\* The call in the loop over the successors of a failed 'skip' node.
SkipCall(nextNodeId, graph, f, configs, execution) ==
  Call5(nextNodeId, graph, f.input, configs, execution)

\* The call of the retry branch.
RetryCall(f, graph, ns, configs, execution) ==
  Call6(f.nodeId, graph, ns, f.input, configs, execution)

TypeErrorMsg == "Cannot set properties of undefined (setting 'currentNode')"
NotFoundMsg == "Node not found"
NoStartMsg == "No start node found"
FailureMsg(nodeId) ==
  IF isAgent(nodeId) THEN "Agent execution failed" ELSE "Integration execution failed"

\* agentResult.output / integrationResult.output of a successful call
OutputOf(nodeId) == IF isAgent(nodeId) THEN "text" ELSE "sent"
\* agentResult.cost || 0
CostOf(nodeId) == IF isAgent(nodeId) THEN 1 ELSE 0

Graph == buildExecutionGraph(nodes, edges)
Execution == executions[executionId]
Started == executionId \in DOMAIN executions
Top == stack[Len(stack)]
Pop == SubSeq(stack, 1, Len(stack) - 1)
SetTop(f) == [stack EXCEPT ![Len(stack)] = f]
LoopPcs == {"startLoop", "nextLoop", "skipLoop"}

CallEntry(f, via) ==
  [node |-> f.nodeId, input |-> f.input, execution |-> f.execution,
   via |-> via, depth |-> Len(stack) + 1]

\* ------------------------------------------------------- flow: actions
\* FlowExecutor.executeFlow up to the await, and flowService.executeFlow up
\* to its call of executeNode (or its catch, without a start node). The
\* Execute button is disabled while isRunning and for an empty node list.
\* One executeFlow call is followed from its start to its return.
ExecuteFlow ==
  /\ flowPc = "idle"
  /\ ~isRunning
  /\ nodes # {}
  /\ isRunning' = TRUE
  /\ executionId' = "flow_1"
  /\ LET execution == [status |-> "running", currentNode |-> Undefined,
                       results |-> <<>>, errors |-> <<>>, endTime |-> FALSE,
                       totalCost |-> 0]
         startNode == findStartNode(nodes)
     IN  IF startNode = Undefined
         THEN /\ executions' = ("flow_1" :> [execution EXCEPT
                                   !.status = "error",
                                   !.errors = Put(<<>>, "flow", NoStartMsg),
                                   !.endTime = TRUE]) @@ executions
              /\ flowPc' = "log"
              /\ UNCHANGED <<stack, calls>>
         ELSE LET f == Call6(startNode, Graph, nodes, InitialInput, nodeConfigs, "flow_1")
              IN  /\ executions' = ("flow_1" :> execution) @@ executions
                  /\ flowPc' = "walk"
                  /\ stack' = <<f>>
                  /\ calls' = Append(calls, CallEntry(f, "flow"))
  /\ UNCHANGED <<nodes, edges, nodeConfigs, thrown, attempts, uiExecution, dbVars, secVars>>

\* executeNode from its first statement to the dispatch on the node's kind.
EnterNode ==
  /\ stack # <<>>
  /\ Top.pc = "entry"
  /\ thrown = NoError
  /\ IF Top.execution = Undefined
     THEN \* execution.currentNode = nodeId throws a TypeError
          /\ thrown' = TypeErrorMsg
          /\ stack' = Pop
          /\ UNCHANGED executions
     ELSE /\ executions' = [executions EXCEPT ![Top.execution].currentNode = Top.nodeId]
          /\ IF Top.nodeId \notin nodes
             THEN /\ thrown' = NotFoundMsg
                  /\ stack' = Pop
             ELSE /\ thrown' = NoError
                  /\ stack' = SetTop([Top EXCEPT
                        !.pc = IF isStart(Top.nodeId) THEN "startLoop" ELSE "await",
                        !.idx = 1])
  /\ UNCHANGED <<nodes, edges, nodeConfigs, executionId, flowPc, calls, attempts,
                 uiVars, dbVars, secVars>>

\* The awaited agent or integration call comes back: with success, the
\* result is stored and the cost added; otherwise an Error is thrown inside
\* the try block.
AwaitResult ==
  /\ stack # <<>>
  /\ Top.pc = "await"
  /\ thrown = NoError
  /\ isAgent(Top.nodeId) \/ isIntegration(Top.nodeId)
  /\ \E success \in BOOLEAN :
       /\ attempts' = Append(attempts,
            [node |-> Top.nodeId, success |-> success, ncalls |-> Len(calls)])
       /\ IF success
          THEN LET result == OutputOf(Top.nodeId)
               IN  /\ executions' = [executions EXCEPT
                        ![Top.execution].results = Put(@, Top.nodeId, result),
                        ![Top.execution].totalCost = @ + CostOf(Top.nodeId)]
                   /\ stack' = SetTop([Top EXCEPT !.pc = "nextLoop", !.idx = 1,
                                                   !.result = result])
                   /\ thrown' = NoError
          ELSE /\ thrown' = FailureMsg(Top.nodeId)
               /\ UNCHANGED <<executions, stack>>
  /\ UNCHANGED <<nodes, edges, nodeConfigs, executionId, flowPc, calls,
                 uiVars, dbVars, secVars>>

\* One iteration of a `for (const nextNodeId of nextNodes)` loop: the call
\* of executeNode on the next successor.
NextNode ==
  /\ stack # <<>>
  /\ Top.pc \in LoopPcs
  /\ thrown = NoError
  /\ Top.idx <= Len(nextNodes(Graph, Top.nodeId))
  /\ Len(calls) < MaxInvocations
  /\ LET nextNodeId == nextNodes(Graph, Top.nodeId)[Top.idx]
         f == CASE Top.pc = "startLoop" ->
                     Call6(nextNodeId, Graph, nodes, Top.input, nodeConfigs, Top.execution)
                [] Top.pc = "nextLoop" ->
                     NextCall(nextNodeId, Graph, Top, nodeConfigs, Top.execution)
                [] Top.pc = "skipLoop" ->
                     SkipCall(nextNodeId, Graph, Top, nodeConfigs, Top.execution)
     IN  /\ stack' = Append(SetTop([Top EXCEPT !.idx = @ + 1]), f)
         /\ calls' = Append(calls, CallEntry(f,
                CASE Top.pc = "startLoop" -> "start"
                  [] Top.pc = "nextLoop" -> "next"
                  [] Top.pc = "skipLoop" -> "skip"))
  /\ UNCHANGED <<nodes, edges, nodeConfigs, executions, executionId, flowPc, thrown,
                 attempts, uiVars, dbVars, secVars>>

\* executeNode returns: its loop is exhausted, or the retried call it
\* awaited has returned.
ReturnNode ==
  /\ stack # <<>>
  /\ thrown = NoError
  /\ \/ Top.pc \in LoopPcs /\ Top.idx > Len(nextNodes(Graph, Top.nodeId))
     \/ Top.pc = "retryWait"
  /\ stack' = Pop
  /\ UNCHANGED <<nodes, edges, nodeConfigs, executions, executionId, flowPc, thrown,
                 calls, attempts, uiVars, dbVars, secVars>>

\* The catch block of executeNode: it receives what the agent or
\* integration call threw and what a call in the successor loop threw.
CatchError ==
  /\ stack # <<>>
  /\ thrown # NoError
  /\ Top.pc \in {"await", "nextLoop"}
  /\ LET action == ErrorAction(errorHandling(nodeConfigs, Top.nodeId))
     IN  /\ action = "retry" => Len(calls) < MaxInvocations
         /\ executions' = [executions EXCEPT
               ![Top.execution].errors = Put(@, Top.nodeId, thrown)]
         /\ CASE action = "throw" ->
                   /\ stack' = Pop
                   /\ UNCHANGED <<thrown, calls>>
              [] action = "skip" ->
                   /\ stack' = SetTop([Top EXCEPT !.pc = "skipLoop", !.idx = 1])
                   /\ thrown' = NoError
                   /\ UNCHANGED calls
              [] action = "retry" ->
                   LET f == RetryCall(Top, Graph, nodes, nodeConfigs, Top.execution)
                   IN  /\ stack' = Append(SetTop([Top EXCEPT !.pc = "retryWait"]), f)
                       /\ calls' = Append(calls, CallEntry(f, "retry"))
                       /\ thrown' = NoError
              [] OTHER ->
                   /\ stack' = Pop
                   /\ thrown' = NoError
                   /\ UNCHANGED calls
  /\ UNCHANGED <<nodes, edges, nodeConfigs, executionId, flowPc, attempts,
                 uiVars, dbVars, secVars>>

\* An error leaves an activation that awaits outside of a try block: the
\* start node's loop, the skip loop and the retry call are in none.
PropagateError ==
  /\ stack # <<>>
  /\ thrown # NoError
  /\ Top.pc \in {"startLoop", "skipLoop", "retryWait"}
  /\ stack' = Pop
  /\ UNCHANGED <<nodes, edges, nodeConfigs, executions, executionId, flowPc, thrown,
                 calls, attempts, uiVars, dbVars, secVars>>

\* executeFlow after the walk returned.
FlowCompleted ==
  /\ flowPc = "walk"
  /\ stack = <<>>
  /\ thrown = NoError
  /\ executions' = [executions EXCEPT ![executionId].status = "completed",
                                      ![executionId].endTime = TRUE]
  /\ flowPc' = "log"
  /\ UNCHANGED <<nodes, edges, nodeConfigs, executionId, stack, thrown, calls,
                 attempts, uiVars, dbVars, secVars>>

\* A catch block that records the error and leaves the status as it is.
FlowFailedStillRunning ==
  /\ flowPc = "walk"
  /\ stack = <<>>
  /\ thrown # NoError
  /\ executions' = [executions EXCEPT ![executionId].errors = Put(@, "flow", thrown),
                                      ![executionId].endTime = TRUE]
  /\ thrown' = NoError
  /\ flowPc' = "log"
  /\ UNCHANGED <<nodes, edges, nodeConfigs, executionId, stack, calls, attempts,
                 uiVars, dbVars, secVars>>

\* executeFlow's catch block.
FlowFailed ==
  /\ flowPc = "walk"
  /\ stack = <<>>
  /\ thrown # NoError
  /\ executions' = [executions EXCEPT ![executionId].status = "error",
                                      ![executionId].errors = Put(@, "flow", thrown),
                                      ![executionId].endTime = TRUE]
  /\ thrown' = NoError
  /\ flowPc' = "log"
  /\ UNCHANGED <<nodes, edges, nodeConfigs, executionId, stack, calls, attempts,
                 uiVars, dbVars, secVars>>

\* logFlowExecution (its own failures are caught and logged), then
\* `return executionId`.
LogFlowExecution ==
  /\ flowPc = "log"
  /\ flowPc' = "returned"
  /\ UNCHANGED <<nodes, edges, nodeConfigs, executions, executionId, stack, thrown,
                 calls, attempts, uiVars, dbVars, secVars>>

\* FlowExecutor's pollExecution, run once executeFlow has resolved.
PollExecution ==
  /\ flowPc = "returned"
  /\ uiExecution # <<Execution>>
  /\ uiExecution' = <<Execution>>
  /\ isRunning' = IF Execution.status = "running" THEN isRunning ELSE FALSE
  /\ UNCHANGED <<flowVars, dbVars, secVars>>

\* stopExecution as it would be with a stop signal sent to the flow service:
\* the execution is paused and its walk dropped.
StopExecutionSignals ==
  /\ isRunning
  /\ isRunning' = FALSE
  /\ executions' = [executions EXCEPT ![executionId].status = "paused"]
  /\ stack' = <<>>
  /\ UNCHANGED <<nodes, edges, nodeConfigs, executionId, flowPc, thrown, calls,
                 attempts, uiExecution, dbVars, secVars>>

\* FlowExecutor's stopExecution: the Stop button is rendered while isRunning.
StopExecution ==
  /\ isRunning
  /\ isRunning' = FALSE
  /\ UNCHANGED <<uiExecution, flowVars, dbVars, secVars>>

\* ------------------------------------------------- documents: operators
\* The accounts of the 'users' collection, with the role each profile has
\* when the documents are worked on.
Users == {"alice", "bob", "root"}
RoleOf(uid) == IF uid = "root" THEN "admin" ELSE "user"

\* AuthService.loadUserProfile: the profile of the 'users' document when it
\* exists; otherwise this.userProfile is left as it is.
loadUserProfile(uid) == IF uid \in DOMAIN usersDb THEN usersDb[uid] ELSE userProfile

DocStatus == {"active", "inactive", "archived"}

\* authService.isAdmin(): this.userProfile?.role === 'admin'
isAdmin == userProfile = "admin"

\* addDoc(collection, data): the store picks a fresh id.
addDoc(store, id, data) == [i \in DOMAIN store \cup {id} |-> IF i = id THEN data ELSE store[i]]

\* updateDoc(doc, {...updates}): the given fields are overwritten.
updateDoc(store, id, status) == [store EXCEPT ![id].status = status]

\* A soft delete: the document stays, with status 'archived'.
deleteDocSoft(store, id) == [store EXCEPT ![id].status = "archived"]

\* deleteDoc(doc): the document is removed from its collection.
deleteDoc(store, id) == [i \in DOMAIN store \ {id} |-> store[i]]

\* The query of getUserAgents / getUserFlows:
\* where('userId', '==', uid), where('status', '==', 'active').
activeDocsOf(store, uid) ==
  {i \in DOMAIN store : store[i].userId = uid /\ store[i].status = "active"}

getUserAgents == activeDocsOf(agentsDb, currentUser)
getUserFlows == activeDocsOf(flowsDb, currentUser)

\* DatabaseService.validateSecurityAccess, followed by the callers'
\* `if (!user) throw`: the error thrown, or NoError.
validateSecurityAccess ==
  IF currentUser = Undefined THEN "User not authenticated"
  ELSE IF ~securityOk THEN "Access denied by security policy"
  ELSE NoError

\* The ownership test without the comparison of userId with the caller.
verifyOwnershipExistsOnly(store, id, notFound) ==
  IF id \notin DOMAIN store THEN notFound ELSE NoError

\* The ownership test of update and delete: the error thrown, or NoError.
verifyOwnership(store, id, notFound) ==
  IF id \notin DOMAIN store THEN notFound
  ELSE IF store[id].userId # currentUser /\ ~isAdmin THEN "Access denied"
  ELSE NoError

DocIds == 1..MaxDocs

\* --------------------------------------------------- documents: actions
\* The auth state listener of AuthService: a sign-in or a sign-out.
AuthStateChanged ==
  /\ \E user \in accounts \cup {Undefined} :
       /\ user # currentUser
       /\ currentUser' = user
       /\ userProfile' = IF user = Undefined THEN Undefined ELSE loadUserProfile(user)
  /\ UNCHANGED <<agentsDb, flowsDb, securityOk, nextDocId, dbError, deletedDocs,
                 flowVars, uiVars, secVars>>

\* Session expiry, device trust, lock alignment and location change.
SecurityChange ==
  /\ securityOk' = ~securityOk
  /\ UNCHANGED <<agentsDb, flowsDb, currentUser, userProfile, nextDocId, dbError,
                 deletedDocs, flowVars, uiVars, secVars>>

createDoc(store) ==
  IF validateSecurityAccess # NoError
  THEN /\ dbError' = validateSecurityAccess
       /\ UNCHANGED <<store, nextDocId>>
  ELSE /\ nextDocId <= MaxDocs
       /\ store' = addDoc(store, nextDocId, [userId |-> currentUser, status |-> "active"])
       /\ nextDocId' = nextDocId + 1
       /\ dbError' = NoError

changeDoc(store, id, notFound, newStore) ==
  LET denied == IF validateSecurityAccess # NoError THEN validateSecurityAccess
                ELSE verifyOwnership(store, id, notFound)
  IN  /\ dbError' = denied
      /\ store' = IF denied = NoError THEN newStore ELSE store

createAgent ==
  /\ createDoc(agentsDb)
  /\ UNCHANGED <<flowsDb, currentUser, userProfile, securityOk, deletedDocs,
                 flowVars, uiVars, secVars>>

updateAgent ==
  /\ \E agentId \in DocIds, status \in DocStatus :
       changeDoc(agentsDb, agentId, "Agent not found", updateDoc(agentsDb, agentId, status))
  /\ UNCHANGED <<flowsDb, currentUser, userProfile, securityOk, nextDocId, deletedDocs,
                 flowVars, uiVars, secVars>>

deleteAgent ==
  /\ \E agentId \in DocIds :
       /\ changeDoc(agentsDb, agentId, "Agent not found", deleteDoc(agentsDb, agentId))
       /\ deletedDocs' = IF dbError' = NoError
                         THEN deletedDocs \cup {<<"agents", agentId>>} ELSE deletedDocs
  /\ UNCHANGED <<flowsDb, currentUser, userProfile, securityOk, nextDocId,
                 flowVars, uiVars, secVars>>

createFlow ==
  /\ createDoc(flowsDb)
  /\ UNCHANGED <<agentsDb, currentUser, userProfile, securityOk, deletedDocs,
                 flowVars, uiVars, secVars>>

updateFlow ==
  /\ \E flowId \in DocIds, status \in DocStatus :
       changeDoc(flowsDb, flowId, "Flow not found", updateDoc(flowsDb, flowId, status))
  /\ UNCHANGED <<agentsDb, currentUser, userProfile, securityOk, nextDocId, deletedDocs,
                 flowVars, uiVars, secVars>>

deleteFlow ==
  /\ \E flowId \in DocIds :
       /\ changeDoc(flowsDb, flowId, "Flow not found", deleteDoc(flowsDb, flowId))
       /\ deletedDocs' = IF dbError' = NoError
                         THEN deletedDocs \cup {<<"flows", flowId>>} ELSE deletedDocs
  /\ UNCHANGED <<agentsDb, currentUser, userProfile, securityOk, nextDocId,
                 flowVars, uiVars, secVars>>

\* ------------------------------------------------- location: operators
\* CLIENT_SECURITY_CONFIG.ALLOWED_COUNTRIES (two of its thirty entries).
ALLOWED_COUNTRIES == {"US", "GB"}

\* What fetch('https://ipapi.co/json/') gives: a response with a
\* country_code, a response without one (NoCountryCode), or a failure.
NoCountryCode == ""
FetchFailed == "fetch failed"
FetchOutcomes == {"US", "CN", NoCountryCode, FetchFailed}

TimeZones == {"America/New_York", "Asia/Shanghai", "Africa/Lagos"}

\* GeographicSecurityManager.guessCountryFromTimezone: timezoneMap[timezone] || 'unknown'
guessCountryFromTimezone(timezone) ==
  CASE timezone = "America/New_York" -> "US"
    [] timezone = "Asia/Shanghai" -> "CN"
    [] OTHER -> "unknown"

\* GeographicSecurityManager.getCurrentLocation: the country of the cached
\* location, or of the response (data.country_code || 'unknown'), or, when
\* the fetch fails, the one guessed from the time zone. It does not throw.
getCurrentLocation(cached, response, timezone) ==
  IF cached # Undefined THEN cached
  ELSE IF response = FetchFailed THEN guessCountryFromTimezone(timezone)
  ELSE IF response = NoCountryCode THEN "unknown"
  ELSE response

\* GeographicSecurityManager.validateLocation. Its catch branch is not
\* modelled: getCurrentLocation catches the failure of its fetch itself.
validateLocation(cached, response, timezone) ==
  LET country == getCurrentLocation(cached, response, timezone)
  IN  [allowed |-> country \in ALLOWED_COUNTRIES, country |-> country]

\* ------------------------------------------------- accounts: operators
Roles == {"user", "admin"}

\* The `role` key of updateProfile's `updates`, or Unset when it has none.
RoleUpdates == Roles \cup {Unset}

\* setDoc(doc(db, 'users', uid), { role, ... }, { merge: true })
setRole(store, uid, role) ==
  [u \in DOMAIN store \cup {uid} |-> IF u = uid THEN role ELSE store[u]]

\* ---------------------------------------------------- accounts: actions
\* AuthService.signUp, with the auth state listener's run for the new user.
signUp ==
  /\ \E email \in Users, role \in Roles, response \in FetchOutcomes :
       LET check == validateLocation(cachedLocation, response, timeZone)
       IN  /\ geoCheck' = <<check>>
           /\ cachedLocation' = check.country
           /\ IF ~check.allowed
              THEN /\ authError' = "Account creation not allowed from your current location."
                   /\ UNCHANGED <<usersDb, accounts, currentUser, userProfile>>
              ELSE IF email \in accounts
              THEN /\ authError' = "auth/email-already-in-use"
                   /\ UNCHANGED <<usersDb, accounts, currentUser, userProfile>>
              ELSE /\ authError' = NoError
                   /\ accounts' = accounts \cup {email}
                   /\ usersDb' = setRole(usersDb, email, "user")
                   /\ currentUser' = email
                   /\ userProfile' = "user"
  /\ UNCHANGED <<lockVars, limitVars, blastVars, promoted, timeZone, agentsDb, flowsDb, securityOk, nextDocId, dbError,
                 deletedDocs, accessVars, sessVars, callVars, flowVars, uiVars>>

\* AuthService.updateProfile
updateProfile ==
  /\ currentUser # Undefined
  /\ userProfile # Undefined
  /\ \E role \in RoleUpdates :
       /\ usersDb' = IF role = Unset THEN usersDb ELSE setRole(usersDb, currentUser, role)
       /\ userProfile' = IF role = Unset THEN userProfile ELSE role
  /\ authError' = NoError
  /\ UNCHANGED <<lockVars, limitVars, blastVars, accounts, promoted, currentUser, geoVars, agentsDb, flowsDb, securityOk,
                 nextDocId, dbError, deletedDocs, accessVars, sessVars, callVars, flowVars, uiVars>>

\* AuthService.promoteToAdmin
promoteToAdmin ==
  /\ \E userId \in Users :
       IF ~isAdmin
       THEN /\ authError' = "Only admins can promote users"
            /\ UNCHANGED <<usersDb, promoted>>
       ELSE /\ authError' = NoError
            /\ usersDb' = setRole(usersDb, userId, "admin")
            /\ promoted' = promoted \cup {userId}
  /\ UNCHANGED <<lockVars, limitVars, blastVars, accounts, currentUser, userProfile, geoVars, agentsDb, flowsDb,
                 securityOk, nextDocId, dbError, deletedDocs, accessVars, sessVars, callVars, flowVars, uiVars>>

\* ---------------------------------------------------- locks: operators
\* CLIENT_SECURITY_CONFIG
LOCK_ALIGNMENT_TOLERANCE == 5
MAX_LOCK_ATTEMPTS == 10

LockTypes == {"authentication", "authorization", "encryption"}

\* Values of Math.floor(Math.random() * 360), and the angles a user drags to.
RequiredAngles == {3, 180}
AttemptAngles == {1, 358}

\* The user the lock screen is opened for.
LockUsers == {"alice"}

\* Math.abs(angle - lock.requiredAngle)
angleDiff(angle, requiredAngle) ==
  IF angle >= requiredAngle THEN angle - requiredAngle ELSE requiredAngle - angle

\* angleDiff <= tolerance || angleDiff >= (360 - tolerance)
isAligned(angle, requiredAngle) ==
  \/ angleDiff(angle, requiredAngle) <= LOCK_ALIGNMENT_TOLERANCE
  \/ angleDiff(angle, requiredAngle) >= 360 - LOCK_ALIGNMENT_TOLERANCE

\* The limit test passing a lock that has just used its last attempt.
tooManyAttemptsOffByOne(lock) == lock.attempts > MAX_LOCK_ATTEMPTS

\* lock.attempts >= CLIENT_SECURITY_CONFIG.MAX_LOCK_ATTEMPTS
tooManyAttempts(lock) == lock.attempts >= MAX_LOCK_ATTEMPTS

\* TripleRadialLockManager.initializeLocks: three locked locks, each with
\* the required angle drawn for it.
initializeLocks(required) ==
  [t \in LockTypes |->
     [status |-> "locked", angle |-> 0, requiredAngle |-> required[t], attempts |-> 0]]

\* TripleRadialLockManager.attemptAlignment: the locks after the call and
\* the error it throws, or NoError.
attemptAlignment(ls, lockType, angle) ==
  IF lockType \notin DOMAIN ls
  THEN [locks |-> ls, error |-> "Security lock not found"]
  ELSE IF tooManyAttempts(ls[lockType])
  THEN [locks |-> ls, error |-> "Too many attempts. Please reset locks."]
  ELSE [locks |->
          [ls EXCEPT ![lockType] =
             [status |-> IF isAligned(angle, @.requiredAngle) THEN "unlocked" ELSE @.status,
              angle |-> angle,
              requiredAngle |-> @.requiredAngle,
              attempts |-> @.attempts + 1]],
        error |-> NoError]

\* resetLocks refusing while a lock has no attempt left (the reset delay of
\* the configuration enforced).
resetLocksDelayed(userId, ls, required) ==
  IF userId = Undefined
  THEN [locks |-> ls, error |-> "No user ID set for lock reset"]
  ELSE IF \E t \in DOMAIN ls : ls[t].attempts >= MAX_LOCK_ATTEMPTS
  THEN [locks |-> ls, error |-> "Locks cannot be reset yet"]
  ELSE [locks |-> initializeLocks(required), error |-> NoError]

\* TripleRadialLockManager.resetLocks: the locks after the call and the
\* error it throws, or NoError.
resetLocks(userId, ls, required) ==
  IF userId = Undefined
  THEN [locks |-> ls, error |-> "No user ID set for lock reset"]
  ELSE [locks |-> initializeLocks(required), error |-> NoError]

\* ------------------------------------------------------ locks: actions
\* The lock screen opening for a user (authenticateUser, signUp, the
\* TripleRadialLock component's mount).
InitializeLocks ==
  /\ lockUserId = Undefined
  /\ \E userId \in LockUsers, required \in [LockTypes -> RequiredAngles] :
       /\ lockUserId' = userId
       /\ locks' = initializeLocks(required)
  /\ lockError' = NoError
  /\ UNCHANGED <<resetWhenSpent, authVars, geoVars, limitVars, blastVars,
                 accessVars, sessVars, callVars, flowVars, uiVars, dbVars>>

\* EnterpriseSecurityClient.alignSecurityLock
alignSecurityLock ==
  /\ \E lockType \in LockTypes, angle \in AttemptAngles :
       LET r == attemptAlignment(locks, lockType, angle)
       IN  /\ locks' = r.locks
           /\ lockError' = r.error
  /\ UNCHANGED <<lockUserId, resetWhenSpent, authVars, geoVars, limitVars, blastVars,
                 accessVars, sessVars, callVars, flowVars, uiVars, dbVars>>

\* EnterpriseSecurityClient.resetSecurityLocks
resetSecurityLocks ==
  /\ \E required \in [LockTypes -> RequiredAngles] :
       LET r == resetLocks(lockUserId, locks, required)
       IN  /\ locks' = r.locks
           /\ lockError' = r.error
           /\ resetWhenSpent' =
                (\/ resetWhenSpent
                 \/ /\ r.error = NoError
                    /\ \E t \in DOMAIN locks : locks[t].attempts >= MAX_LOCK_ATTEMPTS)
  /\ UNCHANGED <<lockUserId, authVars, geoVars, limitVars, blastVars,
                 accessVars, sessVars, callVars, flowVars, uiVars, dbVars>>

\* TripleRadialLockManager.clearLocks (logout)
clearLocks ==
  /\ lockUserId # Undefined
  /\ locks' = <<>>
  /\ lockUserId' = Undefined
  /\ lockError' = NoError
  /\ UNCHANGED <<resetWhenSpent, authVars, geoVars, limitVars, blastVars,
                 accessVars, sessVars, callVars, flowVars, uiVars, dbVars>>

\* --------------------------------------------- rate limiter: operators
\* CLIENT_SECURITY_CONFIG
MAX_LOGIN_ATTEMPTS_PER_MINUTE == 5
MAX_API_CALLS_PER_MINUTE == 60
\* The window of RateLimiter.checkLimit, in milliseconds.
WINDOW_MS == 60000

\* The identifiers checkLimit is called with (e-mail addresses, which name
\* the accounts).
Emails == {"alice", "bob"}

\* How far Date.now() moves between two calls.
ClockSteps == {30000, 30001}

\* `${type}_${identifier}`
limitKey(type, identifier) == <<type, identifier>>

\* checkLimit with the window restarted by every call.
checkLimitSliding(ls, type, identifier, t) ==
  LET key == limitKey(type, identifier)
      limit == IF key \notin DOMAIN ls \/ t > ls[key].resetTime
               THEN [count |-> 0, resetTime |-> t + WINDOW_MS]
               ELSE [count |-> ls[key].count, resetTime |-> t + WINDOW_MS]
      counted1 == [limit EXCEPT !.count = @ + 1]
      maxAttempts == IF type = "login" THEN MAX_LOGIN_ATTEMPTS_PER_MINUTE
                     ELSE MAX_API_CALLS_PER_MINUTE
  IN  [limits |-> [k \in DOMAIN ls \cup {key} |-> IF k = key THEN counted1 ELSE ls[k]],
       ok |-> counted1.count <= maxAttempts]

\* RateLimiter.checkLimit at time t: the map after the call and the result.
checkLimit(ls, type, identifier, t) ==
  LET key == limitKey(type, identifier)
      limit == IF key \notin DOMAIN ls \/ t > ls[key].resetTime
               THEN [count |-> 0, resetTime |-> t + WINDOW_MS]
               ELSE ls[key]
      counted1 == [limit EXCEPT !.count = @ + 1]
      maxAttempts == IF type = "login" THEN MAX_LOGIN_ATTEMPTS_PER_MINUTE
                     ELSE MAX_API_CALLS_PER_MINUTE
  IN  [limits |-> [k \in DOMAIN ls \cup {key} |-> IF k = key THEN counted1 ELSE ls[k]],
       ok |-> counted1.count <= maxAttempts]

\* The history kept of a call made at time t for an identifier: its minute
\* begins with its first call, or with the first call after that minute.
Count(c, identifier, t) ==
  LET entry == IF identifier \notin DOMAIN c \/ t > c[identifier].start + WINDOW_MS
               THEN [start |-> t, n |-> 1]
               ELSE [c[identifier] EXCEPT !.n = @ + 1]
  IN  [i \in DOMAIN c \cup {identifier} |-> IF i = identifier THEN entry ELSE c[i]]

BelowCap(type, identifier) ==
  limitKey(type, identifier) \in DOMAIN limits
     => limits[limitKey(type, identifier)].count < MaxChecks

\* ----------------------------------------------- rate limiter: actions
\* Time passing.
Tick ==
  /\ \E d \in ClockSteps :
       /\ now + d <= MaxClock * 30001
       /\ now' = now + d
  /\ UNCHANGED <<limits, lastCheck, counted, loginResult, authVars, geoVars, lockVars,
                 blastVars, accessVars, sessVars, callVars, flowVars, uiVars, dbVars>>

\* A call of securityService.rateLimiter.checkLimit('login', identifier).
CheckLimit ==
  /\ \E identifier \in Emails :
       /\ BelowCap("login", identifier)
       /\ LET r == checkLimit(limits, "login", identifier, now)
          IN  /\ limits' = r.limits
              /\ lastCheck' = <<[id |-> identifier, ok |-> r.ok]>>
       /\ counted' = Count(counted, identifier, now)
  /\ UNCHANGED <<now, loginResult, authVars, geoVars, lockVars, blastVars,
                 accessVars, sessVars, callVars, flowVars, uiVars, dbVars>>

\* ------------------------------------------------------ login: operators
\* The e-mail address typed into the Login form.
LoginEmails == {"alice"}

\* The answers of the location service while the Login form is used.
LoginFetchOutcomes == {"US", "CN"}

RateLimitedMsg == "Too many login attempts. Please try again later."

\* AuthService.signIn: the rate limit check, then signInWithEmailAndPassword.
\* Gives the limiter's map after it and the error it throws, or NoError.
signIn(ls, email, credentialsOk, t) ==
  LET r == checkLimit(ls, "login", email, t)
  IN  [limits |-> r.limits,
       ok |-> r.ok,
       error |-> IF ~r.ok THEN RateLimitedMsg
                 ELSE IF ~credentialsOk THEN "auth/wrong-password"
                 ELSE NoError]

\* EnterpriseSecurityClient.authenticateUser: the rate limit check, the
\* location check, then the simulated server's answer (which changes
\* nothing kept here). Gives the limiter's map after it, the location check
\* made (<<>> when none) and the error thrown, or NoError.
authenticateUser(ls, email, check, t) ==
  LET r == checkLimit(ls, "login", email, t)
  IN  [limits |-> r.limits,
       ok |-> r.ok,
       geoCheck |-> IF r.ok THEN <<check>> ELSE <<>>,
       error |-> IF ~r.ok THEN RateLimitedMsg
                 ELSE IF ~check.allowed THEN "Access denied from your current location"
                 ELSE NoError]

\* -------------------------------------------------- session: operators
\* CLIENT_SECURITY_CONFIG.INACTIVITY_TIMEOUT: 15 * 60 * 1000
INACTIVITY_TIMEOUT == 900000
\* The life of a session token: Date.now() + 30 * 60 * 1000
SESSION_LIFETIME == 1800000

\* By how much the clock advances between two events of a session: five
\* minutes.
SessionClockSteps == {300000}

\* The passwords given to authenticateUser.
Passwords == {"", "hunter2", "correct horse"}

\* The codes given to verifyDevice.
VerificationCodes == {"123456", "12345", "abcdef"}

\* verificationCode.length === 6 && /^\d+$/.test(verificationCode)
isSixDigits(code) == code = "123456"

\* EncryptionManager.encrypt: CryptoJS.AES.encrypt(data, key).toString(), the
\* salted OpenSSL form in Base64. It differs from one input to the next and
\* is never the empty string, also for empty data.
encrypt(data) ==
  CASE data = "" -> "U2FsdGVkX18x"
    [] data = "hunter2" -> "U2FsdGVkX19h"
    [] OTHER -> "U2FsdGVkX1+c"

\* The client's state that timers act on.
Client == [session |-> session, monitor |-> monitor, timers |-> timers]

\* window.setTimeout / clearTimeout. A timer's id is not handed out again
\* while the timer is pending or a handle still holds it.
TimerIds == 1..MaxPending
FreeTimerIds(c) ==
  TimerIds \ (DOMAIN c.timers \cup {c.session.expirationTimer, c.monitor.inactivityTimer})

setTimeout(c, kind, at) ==
  LET id == CHOOSE i \in FreeTimerIds(c) : \A j \in FreeTimerIds(c) : i <= j
  IN  [id |-> id,
       timers |-> [i \in DOMAIN c.timers \cup {id} |->
                     IF i = id THEN [kind |-> kind, at |-> at] ELSE c.timers[i]]]

clearTimeout(ts, id) == [i \in DOMAIN ts \ {id} |-> ts[i]]

\* The pending timers that have run out at time t.
DueTimers(ts, t) == {i \in DOMAIN ts : ts[i].at <= t}

\* SessionManager.setupTimers. The warning timer, whose callback only writes
\* a line to the console, is left out.
setupTimers(c, t) ==
  IF c.session.expiresAt # 0 /\ c.session.expiresAt > t
  THEN LET r == setTimeout(c, "expiration", c.session.expiresAt)
       IN  [c EXCEPT !.session.expirationTimer = r.id, !.timers = r.timers]
  ELSE c

\* SessionManager.clearTimers
clearTimers(c) ==
  IF c.session.expirationTimer # 0
  THEN [c EXCEPT !.session.expirationTimer = 0,
                 !.timers = clearTimeout(c.timers, c.session.expirationTimer)]
  ELSE c

\* SessionManager.initializeSession: it does not clear the timers of a
\* session it replaces.
initializeSession(c, expiresAt, t) ==
  setupTimers([c EXCEPT !.session.sessionToken = TRUE, !.session.expiresAt = expiresAt], t)

\* SessionManager.updateSession
updateSession(c, expiresAt, t) ==
  setupTimers(clearTimers([c EXCEPT !.session.sessionToken = TRUE,
                                    !.session.expiresAt = expiresAt]), t)

\* SessionManager.destroySession
destroySession(c) ==
  clearTimers([c EXCEPT !.session.sessionToken = FALSE, !.session.expiresAt = 0])

\* SecurityMonitor.setupInactivityTimer
setupInactivityTimer(c, t) ==
  LET r == setTimeout(c, "inactivity", t + INACTIVITY_TIMEOUT)
  IN  [c EXCEPT !.monitor.inactivityTimer = r.id, !.timers = r.timers]

\* SecurityMonitor.clearInactivityTimer
clearInactivityTimer(c) ==
  IF c.monitor.inactivityTimer # 0
  THEN [c EXCEPT !.monitor.inactivityTimer = 0,
                 !.timers = clearTimeout(c.timers, c.monitor.inactivityTimer)]
  ELSE c

\* SecurityMonitor.resetInactivityTimer
resetInactivityTimer(c, t) == setupInactivityTimer(clearInactivityTimer(c), t)

\* SecurityMonitor.startMonitoring. Its activity listeners are never removed.
startMonitoring(c, t) ==
  IF c.monitor.isMonitoring THEN c
  ELSE setupInactivityTimer([c EXCEPT !.monitor.isMonitoring = TRUE,
                                      !.monitor.listening = TRUE], t)

\* SecurityMonitor.stopMonitoring
stopMonitoring(c) == clearInactivityTimer([c EXCEPT !.monitor.isMonitoring = FALSE])

\* The updateActivity listener of SecurityMonitor.setupActivityListeners.
updateActivity(c, t) ==
  IF c.monitor.listening
  THEN resetInactivityTimer(c, t)
  ELSE c

\* A SecurityEvent: its type, its riskScore (0 when it has none) and what
\* its metadata tells.
SecurityEvent(type, riskScore, what) ==
  [type |-> type, riskScore |-> riskScore, what |-> what]

\* EnterpriseSecurityClient.handleSuspiciousActivity, after it logged the
\* event: what it does for the event's riskScore.
handleSuspiciousActivity(riskScore) ==
  IF riskScore # 0 /\ riskScore > 80 THEN "logout"
  ELSE IF riskScore # 0 /\ riskScore > 60 THEN "warn"
  ELSE "none"

\* The riskScore of the event the inactivity timer reports.
InactivityRiskScore == 60

\* A simulated server that compares the password with the stored one.
simulateServerAuthenticationChecked(email, password, isNewDevice, country, hasKeystrokes) ==
  IF email = "" \/ password # encrypt("hunter2")
  THEN [success |-> FALSE, requiresDeviceVerification |-> FALSE,
        requiresLockAlignment |-> FALSE, riskScore |-> 100, sessionToken |-> FALSE]
  ELSE [success |-> ~isNewDevice, requiresDeviceVerification |-> isNewDevice,
        requiresLockAlignment |-> isNewDevice, riskScore |-> 0,
        sessionToken |-> ~isNewDevice]

\* EnterpriseSecurityClient.simulateServerAuthentication. `password` is the
\* request's password: the encrypted one.
simulateServerAuthentication(email, password, isNewDevice, country, hasKeystrokes) ==
  IF email = "" \/ password = ""
  THEN [success |-> FALSE, requiresDeviceVerification |-> FALSE,
        requiresLockAlignment |-> FALSE, riskScore |-> 100, sessionToken |-> FALSE]
  ELSE LET riskScore == (IF isNewDevice THEN 40 ELSE 0)
                        + (IF country \notin ALLOWED_COUNTRIES THEN 30 ELSE 0)
                        + (IF ~hasKeystrokes THEN 20 ELSE 0)
       IN  IF riskScore > 60 \/ isNewDevice
           THEN [success |-> FALSE, requiresDeviceVerification |-> isNewDevice,
                 requiresLockAlignment |-> TRUE, riskScore |-> riskScore,
                 sessionToken |-> FALSE]
           ELSE [success |-> TRUE, requiresDeviceVerification |-> FALSE,
                 requiresLockAlignment |-> FALSE, riskScore |-> 0,
                 sessionToken |-> TRUE]

\* EnterpriseSecurityClient.authenticateUser for a client in state c, with
\* the limiter's map ls, at time t: what the call leaves and gives. `pre` is
\* its rate limit and location check; `response` the server's answer, read
\* only when neither of them threw. No answer of the simulated server has
\* both success and requiresLockAlignment, so the call never initializes the
\* locks.
authenticate(c, ls, email, password, check, t, trusted, hasKeystrokes) ==
  LET pre == authenticateUser(ls, email, check, t)
      response == simulateServerAuthentication(email, encrypt(password), ~trusted,
                                               check.country, hasKeystrokes)
      threw == pre.error # NoError
      openSession == /\ ~threw /\ response.success
                     /\ ~response.requiresLockAlignment /\ response.sessionToken
  IN  [limits |-> pre.limits,
       geoCheck |-> pre.geoCheck,
       error |-> pre.error,
       success |-> ~threw /\ response.success,
       requiresLockAlignment |-> ~threw /\ response.requiresLockAlignment,
       session |-> openSession,
       client |-> IF openSession
                  THEN startMonitoring(initializeSession(c, t + SESSION_LIFETIME, t), t)
                  ELSE c,
       event |-> IF threw THEN SecurityEvent("login_attempt", 100, pre.error)
                 ELSE SecurityEvent("login_attempt", response.riskScore, email)]

\* What authenticateUser leaves of an outcome to its caller.
ResultOf(r) ==
  [threw |-> r.error # NoError, success |-> r.success,
   requiresLockAlignment |-> r.requiresLockAlignment, session |-> r.session]

\* Cap on the timers pending at once: authenticateUser sets up to two
\* timers, an activity event sets one after it cleared one.
TimersLeft == Cardinality(FreeTimerIds(Client)) >= 2
TimerLeftAfter(c) == FreeTimerIds(c) # {}

SetClient(c) ==
  /\ session' = c.session
  /\ monitor' = c.monitor
  /\ timers' = c.timers

\* -------------------------------------------------------- login: actions
\* Login.handleSubmit: authService.signIn, then, when that did not throw,
\* securityService.authenticateUser.
handleSubmit ==
  /\ TimersLeft
  /\ \E email \in LoginEmails, password \in Passwords, credentialsOk \in BOOLEAN,
        response \in LoginFetchOutcomes :
       /\ BelowCap("login", email)
       /\ LET first == signIn(limits, email, credentialsOk, now)
              check == validateLocation(cachedLocation, response, timeZone)
              second == authenticate(Client, first.limits, email, password, check, now,
                                     deviceTrusted, keystrokeData)
          IN  IF first.error # NoError
              THEN /\ limits' = first.limits
                   /\ lastCheck' = <<[id |-> email, ok |-> first.ok]>>
                   /\ loginResult' = <<[email |-> email, error |-> first.error]>>
                   /\ UNCHANGED <<currentUser, userProfile, geoCheck, cachedLocation,
                                  session, monitor, timers, lastEvent, authOutcome>>
              ELSE /\ currentUser' = email
                   /\ userProfile' = loadUserProfile(email)
                   /\ limits' = second.limits
                   /\ lastCheck' = <<[id |-> email, ok |-> second.error # RateLimitedMsg]>>
                   /\ loginResult' = <<[email |-> email, error |-> second.error]>>
                   /\ geoCheck' = IF second.geoCheck = <<>> THEN geoCheck ELSE second.geoCheck
                   /\ cachedLocation' = IF second.geoCheck = <<>> THEN cachedLocation
                                        ELSE check.country
                   /\ SetClient(second.client)
                   /\ lastEvent' = second.event
                   /\ authOutcome' = <<[password |-> password] @@ ResultOf(second)>>
       /\ counted' = Count(counted, email, now)
  /\ UNCHANGED <<now, timeZone, authVars, lockVars, blastVars, agentsDb, flowsDb, securityOk,
                 nextDocId, dbError, deletedDocs, accessVars, callVars, deviceTrusted, keystrokeData,
                 flowVars, uiVars>>

\* ---------------------------------------------------- blast: operators
Severities == {"low", "medium", "high", "critical"}

\* BlastValveSystem.getCurrentIP()
getCurrentIP == "unknown"

\* BlastValveSystem.getAmplificationFactor
getAmplificationFactor(severity) ==
  CASE severity = "critical" -> 10
    [] severity = "high" -> 5
    [] severity = "medium" -> 3
    [] OTHER -> 1

\* BlastValveSystem.getSeverityWeight
getSeverityWeight(severity) ==
  CASE severity = "critical" -> 50
    [] severity = "high" -> 30
    [] severity = "medium" -> 20
    [] severity = "low" -> 10
    [] OTHER -> 5

\* console.warn / console.error / console.log, n lines
consoleWrite(v, n) == [v EXCEPT !.consoleOut = @ + n]

\* EnterpriseSecurityClient.logSecurityEvent: push, then shift when more than
\* 100 are kept; one console line.
logSecurityEvent(v) ==
  consoleWrite([v EXCEPT !.securityEvents = IF @ + 1 > 100 THEN 100 ELSE @ + 1], 1)

\* BlastValveSystem.identifyBlastTarget
identifyBlastTarget(v, sourceIP) == [v EXCEPT !.blastTargets = @ \cup {sourceIP}]

\* simulateCounterAttack sending its payload to the target.
simulateCounterAttackSends(v) == [consoleWrite(v, 2) EXCEPT !.networkOps = @ + 1]

\* BlastValveSystem.simulateCounterAttack: two console lines.
simulateCounterAttack(v) == consoleWrite(v, 2)

\* BlastValveSystem.redirectMalware
redirectMalware(v) == consoleWrite(simulateCounterAttack(v), 1)

\* BlastValveSystem.amplifyBlast where setTimeout works: one timer per
\* counter-attack, then one console line.
amplifyBlast(v, severity) ==
  consoleWrite([v EXCEPT !.timers = @ + getAmplificationFactor(severity)], 1)

\* BlastValveSystem.increaseValvePressure (maxPressure is 100)
increaseValvePressure(v, amount) ==
  consoleWrite([v EXCEPT !.pressure = IF @ + amount > 100 THEN 100 ELSE @ + amount], 1)

\* BlastValveSystem.executeBlast. The replaced window.setTimeout calls the
\* original with the blast valve system as receiver; where the host
\* refuses that, amplifyBlast throws at its first timer and executeBlast's
\* catch writes the error.
executeBlast(v, severity, throws) ==
  LET logged == logSecurityEvent([v EXCEPT !.consoleOut = 0])
      redirected == redirectMalware(identifyBlastTarget(logged, getCurrentIP))
  IN  IF throws
      THEN consoleWrite(redirected, 1)
      ELSE increaseValvePressure(consoleWrite(amplifyBlast(redirected, severity), 1),
                                 getSeverityWeight(severity))

BlastAllowed(severity) ==
  /\ valve.securityEvents < MaxBlasts
  /\ timeoutThrows \/ valve.timers + getAmplificationFactor(severity) <= MaxTimers

\* ------------------------------------------------------ blast: actions
\* The replaced window.fetch: a request found malicious is answered by
\* executeBlast and an exception, any other is passed to the original fetch.
interceptedFetch ==
  /\ \E malicious \in BOOLEAN :
       IF malicious
       THEN /\ BlastAllowed("high")
            /\ valve' = executeBlast(valve, "high", timeoutThrows)
       ELSE /\ valve.networkOps < MaxRequests
            /\ valve' = [valve EXCEPT !.networkOps = @ + 1, !.consoleOut = 0]
  /\ UNCHANGED <<timeoutThrows, authVars, geoVars, lockVars, limitVars,
                 accessVars, sessVars, callVars, flowVars, uiVars, dbVars>>

\* A detection outside fetch (script or iframe added to the page, eval,
\* Function, a string handed to setTimeout): executeBlast on its vector.
attackDetected ==
  /\ \E severity \in Severities :
       /\ BlastAllowed(severity)
       /\ valve' = executeBlast(valve, severity, timeoutThrows)
  /\ UNCHANGED <<timeoutThrows, authVars, geoVars, lockVars, limitVars,
                 accessVars, sessVars, callVars, flowVars, uiVars, dbVars>>

\* A timer of amplifyBlast firing: its simulateCounterAttack.
counterAttackTimer ==
  /\ valve.timers > 0
  /\ valve' = simulateCounterAttack([valve EXCEPT !.timers = @ - 1, !.consoleOut = 0])
  /\ UNCHANGED <<timeoutThrows, authVars, geoVars, lockVars, limitVars,
                 accessVars, sessVars, callVars, flowVars, uiVars, dbVars>>

\* ------------------------------------------ executions and listeners
\* DatabaseService.logExecution: returns when nobody is signed in; otherwise
\* addDoc to 'executions' (and the caller's usage counter, which is not
\* kept here); its errors are caught and logged.
logExecution ==
  /\ IF currentUser = Undefined
     THEN UNCHANGED executionsDb
     ELSE /\ Len(executionsDb) < MaxDocs
          /\ executionsDb' = Append(executionsDb, [userId |-> currentUser])
  /\ UNCHANGED <<listeners, dbVars, authVars, geoVars, lockVars, limitVars, blastVars,
                 sessVars, callVars, flowVars, uiVars>>

\* DatabaseService.getExecutionHistory: the checks, then the query.
getExecutionHistory ==
  /\ dbError' = validateSecurityAccess
  /\ UNCHANGED <<accessVars, sessVars, callVars, agentsDb, flowsDb, currentUser, userProfile, securityOk,
                 nextDocId, deletedDocs, authVars, geoVars, lockVars, limitVars,
                 blastVars, flowVars, uiVars>>

\* subscribeToUserAgents / subscribeToUserFlows: onSnapshot on the caller's
\* active documents of the collection.
subscribeTo(collection) ==
  /\ IF currentUser = Undefined
     THEN /\ dbError' = "User not authenticated"
          /\ UNCHANGED listeners
     ELSE /\ dbError' = NoError
          /\ listeners' = listeners \cup {<<collection, currentUser>>}
  /\ UNCHANGED <<executionsDb, agentsDb, flowsDb, currentUser, userProfile, securityOk,
                 nextDocId, deletedDocs, authVars, geoVars, lockVars, limitVars,
                 blastVars, sessVars, callVars, flowVars, uiVars>>

subscribeToUserAgents == subscribeTo("agents")
subscribeToUserFlows == subscribeTo("flows")

\* ---------------------------------------------------- session: actions
\* Time passing. A timer that has run out fires before the clock moves on.
TimePasses ==
  /\ DueTimers(timers, now) = {}
  /\ \E d \in SessionClockSteps :
       /\ now + d <= MaxSessionClock * d
       /\ now' = now + d
  /\ UNCHANGED <<limits, lastCheck, counted, loginResult, authVars, geoVars, lockVars,
                 blastVars, accessVars, sessVars, callVars, flowVars, uiVars, dbVars>>

\* EnterpriseSecurityClient.authenticateUser
AuthenticateUser ==
  /\ TimersLeft
  /\ \E email \in LoginEmails, password \in Passwords, response \in LoginFetchOutcomes :
       LET check == validateLocation(cachedLocation, response, timeZone)
           r == authenticate(Client, limits, email, password, check, now, deviceTrusted,
                             keystrokeData)
       IN  /\ BelowCap("login", email)
           /\ limits' = r.limits
           /\ geoCheck' = IF r.geoCheck = <<>> THEN geoCheck ELSE r.geoCheck
           /\ cachedLocation' = IF r.geoCheck = <<>> THEN cachedLocation ELSE check.country
           /\ SetClient(r.client)
           /\ lastEvent' = r.event
           /\ authOutcome' = <<[password |-> password] @@ ResultOf(r)>>
  /\ UNCHANGED <<now, lastCheck, counted, loginResult, timeZone, lockVars,
                 deviceTrusted, keystrokeData, authVars, blastVars, accessVars, callVars,
                 flowVars, uiVars, dbVars>>

\* EnterpriseSecurityClient.verifyDevice
verifyDevice ==
  /\ \E verificationCode \in VerificationCodes :
       deviceTrusted' = (deviceTrusted \/ isSixDigits(verificationCode))
  /\ UNCHANGED <<session, monitor, timers, keystrokeData, lastEvent, authOutcome,
                 authVars, geoVars, lockVars, limitVars, blastVars, accessVars, callVars,
                 flowVars, uiVars, dbVars>>

\* A key pressed and released: the keyup listener of BiometricCollector and
\* the keydown listener of SecurityMonitor.
keyPressed ==
  /\ TimerLeftAfter(clearInactivityTimer(Client))
  /\ keystrokeData' = TRUE
  /\ SetClient(updateActivity(Client, now))
  /\ UNCHANGED <<deviceTrusted, lastEvent, authOutcome, authVars, geoVars, lockVars,
                 limitVars, blastVars, accessVars, callVars, flowVars, uiVars, dbVars>>

\* The mouse moved: the mousemove listener of SecurityMonitor.
mouseMoved ==
  /\ TimerLeftAfter(clearInactivityTimer(Client))
  /\ monitor.listening
  /\ SetClient(updateActivity(Client, now))
  /\ UNCHANGED <<deviceTrusted, keystrokeData, lastEvent, authOutcome, authVars, geoVars,
                 lockVars, limitVars, blastVars, accessVars, callVars, flowVars, uiVars, dbVars>>

\* What EnterpriseSecurityClient.logout leaves of a client in state c.
LogoutFrom(c) ==
  /\ SetClient(stopMonitoring(destroySession(c)))
  /\ keystrokeData' = FALSE
  /\ locks' = <<>>
  /\ lockUserId' = Undefined
  /\ limits' = <<>>
  /\ lastEvent' = SecurityEvent("session_activity", 0, "logout")

\* EnterpriseSecurityClient.logout
logout ==
  /\ LogoutFrom(Client)
  /\ UNCHANGED <<now, lastCheck, counted, loginResult, lockError, resetWhenSpent,
                 deviceTrusted, authOutcome, authVars, geoVars, blastVars, accessVars, callVars,
                 flowVars, uiVars, dbVars>>

\* The callback of the inactivity timer `id`: reportSuspiciousActivity, which
\* calls handleSuspiciousActivity with the event.
inactivityTimeoutOf(id) ==
  /\ id \in DueTimers(timers, now)
  /\ timers[id].kind = "inactivity"
  /\ LET fired == [Client EXCEPT !.timers = clearTimeout(timers, id)]
     IN  IF handleSuspiciousActivity(InactivityRiskScore) = "logout"
         THEN LogoutFrom(fired)
         ELSE /\ SetClient(fired)
              /\ lastEvent' = SecurityEvent("suspicious_activity", InactivityRiskScore,
                                            "User inactivity timeout")
              /\ UNCHANGED <<keystrokeData, locks, lockUserId, limits>>
  /\ UNCHANGED <<now, lastCheck, counted, loginResult, lockError, resetWhenSpent,
                 deviceTrusted, authOutcome, authVars, geoVars, blastVars, accessVars, callVars,
                 flowVars, uiVars, dbVars>>

inactivityTimeout == \E id \in TimerIds : inactivityTimeoutOf(id)

\* The callback of an expiration timer: handleSessionExpired, whose
\* refreshSession always gives true, so that its logout is never reached.
sessionExpired ==
  /\ \E id \in DueTimers(timers, now) :
       /\ timers[id].kind = "expiration"
       /\ TimerLeftAfter(clearTimers([Client EXCEPT !.timers = clearTimeout(timers, id)]))
       /\ SetClient(updateSession([Client EXCEPT !.timers = clearTimeout(timers, id)],
                                  now + SESSION_LIFETIME, now))
  /\ UNCHANGED <<deviceTrusted, keystrokeData, lastEvent, authOutcome, authVars, geoVars,
                 lockVars, limitVars, blastVars, accessVars, callVars, flowVars, uiVars, dbVars>>

\* ------------------------------------------ overlapping executeFlow calls
\* The callers of executeFlow: FlowExecutor's Execute button and the Execute
\* button of every FlowCard, each disabled only while its own call runs.
FlowCalls == 1..MaxFlowCalls

\* `flow_${Date.now()}` at time t
flowId(t) == <<"flow_", t>>
NoId == <<>>

\* A caller that has not called executeFlow.
NoRun == [pc |-> "idle", executionId |-> NoId, status |-> "none", endTime |-> FALSE]

\* FlowService.getExecution: the object the map holds under the id, as the
\* call that made it, or 0 (undefined).
getExecution(id) == IF id \in DOMAIN executionRefs THEN executionRefs[id] ELSE 0

\* executions.set(executionId, execution) with an id from the clock.
setExecution(refs, id, c) == [i \in DOMAIN refs \cup {id} |-> IF i = id THEN c ELSE refs[i]]

\* A millisecond passes.
MillisecondPasses ==
  /\ now < MaxMillis
  /\ now' = now + 1
  /\ UNCHANGED <<limits, lastCheck, counted, loginResult, authVars, geoVars, lockVars,
                 blastVars, accessVars, sessVars, callVars, flowVars, uiVars, dbVars>>

\* executeFlow from its first statement to its first await: the id is made
\* from the clock, the execution object is made and put into the map.
executeFlowBegins(c) ==
  /\ flowRuns[c].pc = "idle"
  /\ flowRuns' = [flowRuns EXCEPT ![c] = [pc |-> "walk", executionId |-> flowId(now),
                                           status |-> "running", endTime |-> FALSE]]
  /\ executionRefs' = setExecution(executionRefs, flowId(now), c)
  /\ UNCHANGED <<limitVars, authVars, geoVars, lockVars, blastVars, accessVars, sessVars,
                 flowVars, uiVars, dbVars>>

\* executeFlow after its walk: the call's own execution object gets status
\* 'completed', or 'error' in the catch block, and its endTime.
executeFlowSettles(c) ==
  /\ flowRuns[c].pc = "walk"
  /\ \E status \in {"completed", "error"} :
       flowRuns' = [flowRuns EXCEPT ![c].pc = "log", ![c].status = status,
                                    ![c].endTime = TRUE]
  /\ UNCHANGED <<executionRefs, limitVars, authVars, geoVars, lockVars, blastVars,
                 accessVars, sessVars, flowVars, uiVars, dbVars>>

\* logFlowExecution has been awaited: `return executionId`.
executeFlowReturns(c) ==
  /\ flowRuns[c].pc = "log"
  /\ flowRuns' = [flowRuns EXCEPT ![c].pc = "returned"]
  /\ UNCHANGED <<executionRefs, limitVars, authVars, geoVars, lockVars, blastVars,
                 accessVars, sessVars, flowVars, uiVars, dbVars>>

BeginFlow == \E c \in FlowCalls : executeFlowBegins(c)
SettleFlow == \E c \in FlowCalls : executeFlowSettles(c)
ReturnFlow == \E c \in FlowCalls : executeFlowReturns(c)

\* ------------------------------------------------------ specification
FlowInit ==
  /\ nodes \in SUBSET NodeIds
  /\ edges \in SeqsUpTo(EdgeSet, MaxEdges)
  /\ nodeConfigs \in {c \in [NodeIds -> ErrorHandlingOptions \cup {Unset}] :
                        c["start"] = Unset}
  /\ executions = <<>>
  /\ executionId = Undefined
  /\ flowPc = "idle"
  /\ stack = <<>>
  /\ thrown = NoError
  /\ isRunning = FALSE
  /\ uiExecution = <<>>
  /\ calls = <<>>
  /\ attempts = <<>>

\* No sign-up in progress: every account has its profile document.
AuthIdle ==
  /\ usersDb = [u \in Users |-> RoleOf(u)]
  /\ accounts = Users
  /\ authError = NoError
  /\ promoted = {}

GeoIdle ==
  /\ cachedLocation = Undefined
  /\ timeZone = "America/New_York"
  /\ geoCheck = <<>>

LockIdle ==
  /\ locks = <<>>
  /\ lockUserId = Undefined
  /\ lockError = NoError
  /\ resetWhenSpent = FALSE

LimitIdle ==
  /\ now = 0
  /\ limits = <<>>
  /\ lastCheck = <<>>
  /\ counted = <<>>
  /\ loginResult = <<>>

ValveIdle ==
  valve = [pressure |-> 0, blastTargets |-> {}, securityEvents |-> 0, timers |-> 0,
           consoleOut |-> 0, networkOps |-> 0]

BlastIdle == ValveIdle /\ timeoutThrows = FALSE

AccessIdle ==
  /\ executionsDb = <<>>
  /\ listeners = {}

\* Nobody signed in to the security client: no session, no monitoring, no
\* timer pending.
SessIdle ==
  /\ session = [sessionToken |-> FALSE, expiresAt |-> 0, expirationTimer |-> 0]
  /\ monitor = [isMonitoring |-> FALSE, listening |-> FALSE, inactivityTimer |-> 0]
  /\ timers = <<>>
  /\ deviceTrusted = FALSE
  /\ keystrokeData = FALSE
  /\ lastEvent = Undefined
  /\ authOutcome = <<>>

\* No caller has called executeFlow.
CallsIdle ==
  /\ flowRuns = [c \in FlowCalls |-> NoRun]
  /\ executionRefs = <<>>

SecIdle ==
  /\ AuthIdle /\ GeoIdle /\ LockIdle /\ LimitIdle /\ BlastIdle /\ AccessIdle
  /\ SessIdle /\ CallsIdle

DbIdle ==
  /\ agentsDb = <<>>
  /\ flowsDb = <<>>
  /\ currentUser = Undefined
  /\ userProfile = Undefined
  /\ securityOk = TRUE
  /\ nextDocId = 1
  /\ dbError = NoError
  /\ deletedDocs = {}

Init == FlowInit /\ DbIdle /\ SecIdle

Next ==
  \/ ExecuteFlow
  \/ EnterNode
  \/ AwaitResult
  \/ NextNode
  \/ ReturnNode
  \/ CatchError
  \/ PropagateError
  \/ FlowCompleted
  \/ FlowFailed
  \/ LogFlowExecution
  \/ PollExecution
  \/ StopExecution

Spec == Init /\ [][Next]_vars

\* The document operations, with no flow loaded in the editor.
FlowIdle ==
  /\ nodes = {}
  /\ edges = <<>>
  /\ nodeConfigs = [n \in NodeIds |-> Unset]
  /\ executions = <<>>
  /\ executionId = Undefined
  /\ flowPc = "idle"
  /\ stack = <<>>
  /\ thrown = NoError
  /\ isRunning = FALSE
  /\ uiExecution = <<>>
  /\ calls = <<>>
  /\ attempts = <<>>

DbInit == FlowIdle /\ DbIdle /\ SecIdle

DbNext ==
  \/ AuthStateChanged
  \/ SecurityChange
  \/ createAgent
  \/ updateAgent
  \/ deleteAgent
  \/ createFlow
  \/ updateFlow
  \/ deleteFlow

SpecDb == DbInit /\ [][DbNext]_vars

\* The account operations, starting from the one admin account.
AuthInit ==
  /\ FlowIdle
  /\ DbIdle
  /\ usersDb = [u \in {"root"} |-> RoleOf(u)]
  /\ accounts = {"root"}
  /\ authError = NoError
  /\ promoted = {}
  /\ cachedLocation = Undefined
  /\ timeZone \in TimeZones
  /\ geoCheck = <<>>
  /\ LockIdle
  /\ LimitIdle
  /\ BlastIdle
  /\ SessIdle
  /\ CallsIdle
  /\ AccessIdle

AuthNext ==
  \/ signUp
  \/ AuthStateChanged
  \/ updateProfile
  \/ promoteToAdmin

SpecAuth == AuthInit /\ [][AuthNext]_vars

\* The lock screen.
LockInit == FlowIdle /\ DbIdle /\ SecIdle

LockNext ==
  \/ InitializeLocks
  \/ alignSecurityLock
  \/ resetSecurityLocks
  \/ clearLocks

SpecLock == LockInit /\ [][LockNext]_vars

\* The rate limiter called on its own.
LimiterInit == FlowIdle /\ DbIdle /\ SecIdle

LimiterNext ==
  \/ Tick
  \/ CheckLimit

SpecLimiter == LimiterInit /\ [][LimiterNext]_vars

\* The Login form.
LoginInit == FlowIdle /\ DbIdle /\ SecIdle

LoginNext ==
  \/ Tick
  \/ handleSubmit

SpecLogin == LoginInit /\ [][LoginNext]_vars

\* The blast valve system, on either kind of host.
BlastInit ==
  /\ FlowIdle
  /\ DbIdle
  /\ AuthIdle
  /\ GeoIdle
  /\ LockIdle
  /\ LimitIdle
  /\ ValveIdle
  /\ timeoutThrows \in BOOLEAN
  /\ AccessIdle
  /\ SessIdle
  /\ CallsIdle

BlastNext ==
  \/ interceptedFetch
  \/ attackDetected
  \/ counterAttackTimer

SpecBlast == BlastInit /\ [][BlastNext]_vars

\* The execution log and the real-time listeners.
AccessInit == FlowIdle /\ DbIdle /\ SecIdle

AccessNext ==
  \/ AuthStateChanged
  \/ SecurityChange
  \/ logExecution
  \/ getExecutionHistory
  \/ subscribeToUserAgents
  \/ subscribeToUserFlows

SpecAccess == AccessInit /\ [][AccessNext]_vars

\* The security client's session: signing in, activity, timers, logout.
SessionInit == FlowIdle /\ DbIdle /\ SecIdle

SessionNext ==
  \/ TimePasses
  \/ AuthenticateUser
  \/ verifyDevice
  \/ keyPressed
  \/ mouseMoved
  \/ logout
  \/ inactivityTimeout
  \/ sessionExpired

SpecSession == SessionInit /\ [][SessionNext]_vars

\* executeFlow called by several callers.
OverlapInit == FlowIdle /\ DbIdle /\ SecIdle

OverlapNext ==
  \/ MillisecondPasses
  \/ BeginFlow
  \/ SettleFlow
  \/ ReturnFlow

SpecOverlap == OverlapInit /\ [][OverlapNext]_vars

\* ============================================================== claims
\* The successors of a node as the edge list gives them, in its order.
EdgeTargets(nodeId) ==
  LET from == SelectSeq(edges, LAMBDA e : e[1] = nodeId)
  IN  [i \in DOMAIN from |-> from[i][2]]

SuccessorsOf(S) == {edges[i][2] : i \in {j \in DOMAIN edges : edges[j][1] \in S}}

RECURSIVE ReachFrom(_)
ReachFrom(S) ==
  LET T == S \cup SuccessorsOf(S)
  IN  IF T = S THEN S ELSE ReachFrom(T)

ReachableNodes == ReachFrom({"start"})
OnCycle(n) == n \in ReachFrom(SuccessorsOf({n}))
Acyclic == \A n \in NodeIds : ~OnCycle(n)
CycleReachable == \E n \in ReachableNodes : OnCycle(n)

\* The flow has its start node and every edge joins two of its nodes.
WellFormed ==
  /\ "start" \in nodes
  /\ \A i \in DOMAIN edges : edges[i][1] \in nodes /\ edges[i][2] \in nodes

AllCallsSucceeded == \A i \in DOMAIN attempts : attempts[i].success
Terminal == Started /\ Execution.status \in {"completed", "error"}

FailedAttemptsOf(policy) ==
  {i \in DOMAIN attempts :
     /\ ~attempts[i].success
     /\ errorHandling(nodeConfigs, attempts[i].node) = policy}

RetriesOf(n) == {i \in DOMAIN calls : calls[i].node = n /\ calls[i].via = "retry"}

\* C1: an acyclic flow whose agent and integration calls all succeed ends
\* with status 'completed' and a result for every non-start node reachable
\* from the start node.
C1_AllReachableVisited ==
  (Terminal /\ WellFormed /\ Acyclic /\ AllCallsSucceeded) =>
     /\ Execution.status = "completed"
     /\ \A n \in ReachableNodes \ {"start"} : n \in DOMAIN Execution.results

\* C2: every successor called by a node that succeeded is executed (it has
\* the execution to work on) with the node's input extended by the node's
\* own output under the node's id.
C2_SuccessorGetsMergedInput ==
  \A i \in 1..(Len(stack) - 1) :
    stack[i].pc = "nextLoop" =>
      /\ stack[i + 1].execution = stack[i].execution
      /\ stack[i + 1].input = Merge(stack[i].input, stack[i].nodeId, stack[i].result)

\* C3: after the failure of a node with policy 'stop' the error is recorded
\* under the node's id, no node is called or run any more, and the
\* execution does not complete: it ends with status 'error' and a message
\* under errors['flow'].
C3_StopAborts ==
  \A i \in FailedAttemptsOf("stop") :
    /\ i = Len(attempts)
    /\ Len(calls) = attempts[i].ncalls
    /\ Execution.status # "completed"
    /\ (stack = <<>> \/ Top.nodeId # attempts[i].node)
         => /\ attempts[i].node \in DOMAIN Execution.errors
            /\ Execution.errors[attempts[i].node] = FailureMsg(attempts[i].node)
    /\ flowPc \in {"log", "returned"}
         => /\ Execution.status = "error"
            /\ "flow" \in DOMAIN Execution.errors

C3_Witness ==
  /\ FailedAttemptsOf("stop") # {}
  /\ flowPc = "returned"
  /\ Execution.status = "error"
  /\ Len(attempts) > 1

\* C4: the successors of a failed node with policy 'skip' are executed with
\* the input the failed node received, and when that failure is all that
\* went wrong in the walk the execution does not get status 'error'.
C4_SkipContinues ==
  /\ \A i \in 1..(Len(stack) - 1) :
       stack[i].pc = "skipLoop" =>
         /\ stack[i + 1].execution = stack[i].execution
         /\ stack[i + 1].input = stack[i].input
  /\ (Started /\ WellFormed /\ Len(attempts) = 1 /\ FailedAttemptsOf("skip") = {1})
       => Execution.status # "error"

\* C5: a failed node with policy 'retry' is called again at once, with the
\* same input, and while every run of such a node has failed the execution
\* stays 'running', however often the node has been retried.
C5_RetryWithoutLimit ==
  /\ \A i \in FailedAttemptsOf("retry") :
       LET k == attempts[i].ncalls
       IN  Len(calls) > k =>
             /\ calls[k + 1].node = calls[k].node
             /\ calls[k + 1].input = calls[k].input
             /\ calls[k + 1].execution = calls[k].execution
             /\ calls[k + 1].via = "retry"
  /\ \A n \in NodeIds :
       (/\ errorHandling(nodeConfigs, n) = "retry"
        /\ \E i \in DOMAIN attempts : attempts[i].node = n
        /\ \A i \in DOMAIN attempts : attempts[i].node = n => ~attempts[i].success)
       => Execution.status = "running"

C5_Witness ==
  \E n \in NodeIds :
    /\ Cardinality(RetriesOf(n)) > 3
    /\ Cardinality({i \in FailedAttemptsOf("retry") : attempts[i].node = n}) > 4
    /\ Execution.status = "running"

\* C6: a node with the 'retry' option ('Retry (3x)' in the editor) is
\* called again at most 3 times.
C6_RetryAtMostThreeTimes ==
  \A n \in NodeIds : Cardinality(RetriesOf(n)) <= 3

\* C7: a flow with a cycle reachable from the start node whose calls all
\* succeed never gets to status 'completed' or 'error'.
C7_CycleNeverTerminates ==
  (Started /\ WellFormed /\ CycleReachable /\ AllCallsSucceeded)
     => Execution.status = "running"

\* C8: the walk is depth first and sequential: every activation below the
\* innermost one waits for the call it made last, and an activation in a
\* successor loop has called exactly the successors before its position,
\* in edge-list order, the last of them being the one it waits for.
CallOf(d) == CHOOSE i \in DOMAIN calls :
               /\ calls[i].depth = d
               /\ \A j \in DOMAIN calls : calls[j].depth = d => j <= i
ViaOf(pc) == CASE pc = "startLoop" -> "start"
               [] pc = "nextLoop" -> "next"
               [] pc = "skipLoop" -> "skip"
               [] OTHER -> "retry"
CalledBy(d) ==
  LET later == SubSeq(calls, CallOf(d) + 1, Len(calls))
      mine == SelectSeq(later, LAMBDA c : c.depth = d + 1 /\ c.via = ViaOf(stack[d].pc))
  IN  [i \in DOMAIN mine |-> mine[i].node]

C9_StopIsNoOp ==
  [][(isRunning /\ ~isRunning' /\ flowPc \in {"walk", "log"}) => UNCHANGED flowVars]_vars

C9_Witness ==
  /\ ~isRunning
  /\ uiExecution = <<>>
  /\ flowPc = "returned"
  /\ Execution.status = "completed"
  /\ DOMAIN Execution.results # {}

\* C10 as stated: a deleted document stays in the store with a status other
\* than 'active'.
StoreOf(collection) == IF collection = "agents" THEN agentsDb ELSE flowsDb

C10_SoftDelete ==
  \A d \in deletedDocs :
    /\ d[2] \in DOMAIN StoreOf(d[1])
    /\ StoreOf(d[1])[d[2]].status # "active"

\* C10, amended: a deleted document is removed from the store, and no
\* user's getUserAgents / getUserFlows returns it.
C10_HardDelete ==
  \A d \in deletedDocs :
    /\ d[2] \notin DOMAIN StoreOf(d[1])
    /\ \A u \in Users : d[2] \notin activeDocsOf(StoreOf(d[1]), u)

C10_Witness ==
  /\ <<"agents", 1>> \in deletedDocs
  /\ <<"flows", 2>> \in deletedDocs
  /\ dbError = NoError

\* C11: update and delete change or remove a document only when the caller
\* owns it or is an admin; a caller who is neither gets 'Access denied' and
\* an 'Access denied' call leaves both collections as they were. A document
\* that appears in a collection carries the caller's uid as userId.
OwnershipKept(old, new) ==
  /\ \A id \in DOMAIN old :
       (id \notin DOMAIN new \/ new[id] # old[id])
          => /\ old[id].userId = currentUser \/ isAdmin
             /\ dbError' = NoError
  /\ \A id \in DOMAIN new \ DOMAIN old : new[id].userId = currentUser
  /\ \A id \in DOMAIN old :
       (old[id].userId # currentUser /\ ~isAdmin)
          => verifyOwnership(old, id, "not found") = "Access denied"

C11_OwnershipEnforced ==
  [][/\ OwnershipKept(agentsDb, agentsDb')
     /\ OwnershipKept(flowsDb, flowsDb')
     /\ dbError' = "Access denied" => UNCHANGED <<agentsDb, flowsDb>>]_vars

C11_Witness ==
  /\ dbError = "Access denied"
  /\ currentUser = "bob"
  /\ 1 \in DOMAIN agentsDb
  /\ agentsDb[1] = [userId |-> "alice", status |-> "active"]
  /\ 2 \in DOMAIN flowsDb
  /\ flowsDb[2].userId = "root"

\* C12: a profile made by signUp has role 'user', and a role becomes
\* 'admin' only by a promoteToAdmin that an admin calls.
RoleIn(store, uid) == IF uid \in DOMAIN store THEN store[uid] ELSE Unset

C12_RoleOnlyByPromotion ==
  [][\A u \in Users :
       /\ (RoleIn(usersDb', u) = "admin" /\ RoleIn(usersDb, u) # "admin")
             => (isAdmin /\ u \in promoted')
       /\ (u \in accounts' \ accounts) => RoleIn(usersDb', u) = "user"]_vars

\* C20: a location that validateLocation reports as 'unknown' is allowed,
\* and signUp is not refused for it.
C20_UnknownLocationAllowed ==
  geoCheck # <<>> =>
    /\ geoCheck[1].country = "unknown" => geoCheck[1].allowed
    /\ authError = "Account creation not allowed from your current location."
         => geoCheck[1].country # "unknown"

\* C14: once locks are initialized a reset is accepted in every state, also
\* when a lock has used all its attempts, and gives three locked locks with
\* attempts 0, each of which accepts an alignment attempt again.
C14_ResetAlwaysAccepted ==
  lockUserId # Undefined =>
    \A required \in [LockTypes -> RequiredAngles] :
      LET r == resetLocks(lockUserId, locks, required)
      IN  /\ r.error = NoError
          /\ DOMAIN r.locks = LockTypes
          /\ \A t \in LockTypes :
               /\ r.locks[t].attempts = 0
               /\ r.locks[t].status = "locked"
               /\ \A a \in AttemptAngles :
                    attemptAlignment(r.locks, t, a).error = NoError

C14_Witness ==
  /\ resetWhenSpent
  /\ lockError = "Too many attempts. Please reset locks."
  /\ locks["authentication"].attempts = MAX_LOCK_ATTEMPTS
  /\ locks["authorization"].attempts > 0

\* C19: no lock's attempts exceed MAX_LOCK_ATTEMPTS; an attempt on a lock
\* below the limit is accepted and adds one to that lock's attempts; an
\* attempt on a lock at the limit throws 'Too many attempts. Please reset
\* locks.' and leaves every lock as it was.
C19_AttemptLimit ==
  /\ \A t \in DOMAIN locks : locks[t].attempts <= MAX_LOCK_ATTEMPTS
  /\ \A t \in DOMAIN locks, a \in AttemptAngles :
       LET r == attemptAlignment(locks, t, a)
       IN  IF locks[t].attempts = MAX_LOCK_ATTEMPTS
           THEN /\ r.error = "Too many attempts. Please reset locks."
                /\ r.locks = locks
           ELSE /\ r.error = NoError
                /\ r.locks[t].attempts = locks[t].attempts + 1
                /\ \A u \in DOMAIN locks \ {t} : r.locks[u] = locks[u]
  /\ lockError = "Too many attempts. Please reset locks."
       => \E t \in DOMAIN locks : locks[t].attempts = MAX_LOCK_ATTEMPTS

C19_Witness ==
  /\ lockError = "Too many attempts. Please reset locks."
  /\ locks["encryption"].attempts = MAX_LOCK_ATTEMPTS
  /\ locks["encryption"].status = "locked"
  /\ locks["encryption"].angle = 358
  /\ ~resetWhenSpent

\* C15: a checkLimit('login', id) call returns true exactly when it is one
\* of the first 5 calls of its identifier's minute, the minute beginning
\* with the identifier's first call and again with its first call after a
\* minute has ended, whatever is called for other identifiers.
C15_FiveCallsPerWindow ==
  lastCheck # <<>> =>
    /\ lastCheck[1].id \in DOMAIN counted
    /\ lastCheck[1].ok = (counted[lastCheck[1].id].n <= 5)

C15_Witness ==
  /\ lastCheck = <<[id |-> "alice", ok |-> TRUE]>>
  /\ counted["alice"].start > WINDOW_MS
  /\ counted["alice"].n = 1
  /\ limits[limitKey("login", "alice")].count = 1
  /\ "bob" \in DOMAIN counted
  /\ counted["bob"].n > 5
  /\ now <= counted["bob"].start + WINDOW_MS

\* C16: a submission of the Login form that is one of the first 5 made with
\* its e-mail address in a minute is not refused with 'Too many login
\* attempts. Please try again later.'.
C16_FiveSubmissionsPerMinute ==
  loginResult # <<>> =>
    (counted[loginResult[1].email].n <= 5 => loginResult[1].error # RateLimitedMsg)

\* C13: a step that handles an attack (it adds a security event) or runs a
\* counter-attack timer sends nothing to the network and touches nothing
\* but the console, the blastTargets map, the security events, the pending
\* timers and the valve pressure, which does not go down.
C13_BlastSendsNothing ==
  [][(valve'.securityEvents # valve.securityEvents \/ valve'.timers < valve.timers)
       => /\ valve'.networkOps = valve.networkOps
          /\ valve'.pressure >= valve.pressure
          /\ valve.blastTargets \subseteq valve'.blastTargets
          /\ UNCHANGED <<timeoutThrows, authVars, geoVars, lockVars, limitVars,
                         accessVars, sessVars, callVars, flowVars, uiVars, dbVars>>]_vars

C13_Witness ==
  /\ valve.securityEvents = 2
  /\ valve.blastTargets = {"unknown"}
  /\ valve.pressure = 80
  /\ valve.timers = 3
  /\ valve.consoleOut = 2
  /\ valve.networkOps = 1

\* C17: the 'executions' collection is written and a listener is attached
\* to the document store only for a caller who passes validateSecurityAccess.
C17_EveryAccessValidated ==
  [][(executionsDb' # executionsDb \/ listeners' # listeners)
       => validateSecurityAccess = NoError]_vars

\* C18: when a node whose errorHandling was never set fails, the policy the
\* engine applies is the one the editor shows as selected for it.
C18_EditorShowsEnginePolicy ==
  \A i \in DOMAIN attempts :
    (~attempts[i].success /\ nodeConfigs[attempts[i].node] = Unset)
       => errorHandling(nodeConfigs, attempts[i].node)
            = EditorSelected(nodeConfigs, attempts[i].node)

\* C21: while monitoring is active, the inactivity timer running out (15
\* minutes after the last activity event, or after monitoring began) ends
\* the session: the token is gone and monitoring has stopped.
C21_InactivityLocksSession ==
  [][\A id \in TimerIds :
       (monitor.isMonitoring /\ id = monitor.inactivityTimer /\ inactivityTimeoutOf(id))
          => (~session'.sessionToken /\ ~monitor'.isMonitoring)]_vars

\* C24: in every state in which authenticateUser can be called, and for
\* every email and answer of the location service, any two non-empty
\* passwords give the same outcome: whether the call throws, its success
\* flag, its requiresLockAlignment, and whether a session is created.
C24_PasswordNotInspected ==
  TimersLeft =>
    \A email \in LoginEmails, response \in LoginFetchOutcomes :
      \A p \in Passwords \ {""}, q \in Passwords \ {""} :
        LET check == validateLocation(cachedLocation, response, timeZone)
            OutcomeFor(password) ==
              ResultOf(authenticate(Client, limits, email, password, check, now,
                                    deviceTrusted, keystrokeData))
        IN  OutcomeFor(p) = OutcomeFor(q)

\* A call with a non-empty password has succeeded and opened a session.
C24_Witness ==
  /\ authOutcome # <<>>
  /\ authOutcome[1].password # ""
  /\ authOutcome[1].success
  /\ authOutcome[1].session
  /\ session.sessionToken
  /\ monitor.isMonitoring

C23_OwnRecordPerCall ==
  /\ \A c \in FlowCalls :
       flowRuns[c].pc = "returned" => getExecution(flowRuns[c].executionId) = c
  /\ \A c \in FlowCalls, d \in FlowCalls :
       (c # d /\ flowRuns[c].pc # "idle" /\ flowRuns[d].pc # "idle")
          => flowRuns[c].executionId # flowRuns[d].executionId

====
